---- MODULE Spec2Model ----
(***************************************************************************)
(* A model of the cesu8 crate (src/src/lib.rs): the four public functions  *)
(* decode, encode, encoded_len and is_valid, their private helpers, and    *)
(* the loops of encoded_len, encode and decode taken one iteration a step. *)
(*                                                                         *)
(* Two specifications:                                                     *)
(*   Spec        a well-formed string s is measured with encoded_len(s),   *)
(*               encoded with encode(s), and the bytes that encode         *)
(*               returned are decoded with decode;                         *)
(*   SpecDecode  decode runs on an arbitrary byte slice.                   *)
(***************************************************************************)
EXTENDS Integers, Sequences, FiniteSets

VARIABLES
    chars,       \* the characters (scalar values) of the &str argument
    str,         \* str.as_bytes(): the UTF-8 bytes of the &str argument
    pc,          \* the position of the running call
    index,       \* `index` of the loop in encoded_len, then of the one in encode
    capacity,    \* `capacity` of encoded_len, then of encode
    len_result,  \* what the call encoded_len(str) returned
    encoded,     \* the Vec `encoded` of encode
    enc_result,  \* what encode returned: a Cow
    bytes,       \* the argument of decode
    iter,        \* how many bytes `iter` of decode has yielded
    decoded,     \* the Vec `decoded` of decode
    dec_result   \* what decode returned: Ok(Cow) or Err(DecodingError)

vars == <<chars, str, pc, index, capacity, len_result, encoded, enc_result,
          bytes, iter, decoded, dec_result>>

(***************************************************************************)
(* Bounds of the model.                                                    *)
(***************************************************************************)
\* the longest string, in characters
MaxChars == 4
\* the longest byte slice given to decode, in fragments of RawFragments
MaxFrags == 3

(***************************************************************************)
(* Machine arithmetic: Rust's &, |, <<, >> and `as` on unsigned integers.  *)
(***************************************************************************)
\* a & b on the four low bits
And4(a, b) ==
    (a % 2) * (b % 2)
    + 2 * ((a \div 2) % 2) * ((b \div 2) % 2)
    + 4 * ((a \div 4) % 2) * ((b \div 4) % 2)
    + 8 * ((a \div 8) % 2) * ((b \div 8) % 2)

\* And4 as a table, computed once
And4Table == [a \in 0..15 |-> [b \in 0..15 |-> And4(a, b)]]

\* a & b, four bits at a time
RECURSIVE BitAnd(_, _)
BitAnd(a, b) ==
    IF a = 0 \/ b = 0 THEN 0
    ELSE And4Table[a % 16][b % 16] + 16 * BitAnd(a \div 16, b \div 16)

\* a | b
BitOr(a, b) == a + b - BitAnd(a, b)

Pow2(n) == 2 ^ n

\* A u32 is kept by its low 26 bits. Every result the crate reads from a u32
\* lies there (`>> 10` cast to u16, `& 0x3FF`, the bits 0..20 of a code point),
\* and the low 26 bits of +, -, <<, | and & depend on the low 26 bits of their
\* operands alone, so a wrapped value goes wrong here exactly as it does in
\* 32 bits.
U32(x) == x % Pow2(26)
\* x << n
Shl(x, n) == (x % Pow2(26 - n)) * Pow2(n)
\* x >> n
Shr(x, n) == x \div Pow2(n)
\* a - b and a + b when overflow checks are off
WrappingSub(a, b) == U32(a - b)
WrappingAdd(a, b) == U32(a + b)
AsU8(x) == x % 256
AsU16(x) == x % 65536

(***************************************************************************)
(* Constants of the crate.                                                 *)
(***************************************************************************)
MAX_ASCII_CODE_POINT == \h7F
CESU8_MAX_CHAR_WIDTH == 3
CONT_TAG == \h80
\* Option::None of utf8_char_width
None == 0

(***************************************************************************)
(* The byte classifiers.                                                   *)
(***************************************************************************)
is_continuation_byte(byte) == BitAnd(byte, \hC0) = CONT_TAG

\* E0..EF counted as 4 bytes wide
utf8_char_width_wide(byte) ==
    CASE byte <= MAX_ASCII_CODE_POINT -> 1
      [] byte >= \hC2 /\ byte <= \hDF -> 2
      [] byte >= \hE0 /\ byte <= \hF4 -> 4
      [] OTHER -> None

utf8_char_width(byte) ==
    CASE byte <= MAX_ASCII_CODE_POINT -> 1
      [] byte >= \hC2 /\ byte <= \hDF -> 2
      [] byte >= \hE0 /\ byte <= \hEF -> 3
      [] byte >= \hF0 /\ byte <= \hF4 -> 4
      [] OTHER -> None

(***************************************************************************)
(* The standard library as the crate uses it.                              *)
(***************************************************************************)
InRange(x, lo, hi) == lo <= x /\ x <= hi

\* How many bytes the well-formed UTF-8 sequence at the head of b takes, 0 if
\* there is none (core::str::from_utf8's table of well-formed sequences).
WellFormedHead(b) ==
    LET n == Len(b)
        cont(i) == i <= n /\ InRange(b[i], \h80, \hBF)
    IN  IF n = 0 THEN 0
        ELSE IF b[1] <= \h7F THEN 1
        ELSE IF InRange(b[1], \hC2, \hDF) /\ cont(2) THEN 2
        ELSE IF b[1] = \hE0 /\ n >= 2 /\ InRange(b[2], \hA0, \hBF) /\ cont(3) THEN 3
        ELSE IF InRange(b[1], \hE1, \hEC) /\ cont(2) /\ cont(3) THEN 3
        ELSE IF b[1] = \hED /\ n >= 2 /\ InRange(b[2], \h80, \h9F) /\ cont(3) THEN 3
        ELSE IF InRange(b[1], \hEE, \hEF) /\ cont(2) /\ cont(3) THEN 3
        ELSE IF b[1] = \hF0 /\ n >= 2 /\ InRange(b[2], \h90, \hBF) /\ cont(3) /\ cont(4) THEN 4
        ELSE IF InRange(b[1], \hF1, \hF3) /\ cont(2) /\ cont(3) /\ cont(4) THEN 4
        ELSE IF b[1] = \hF4 /\ n >= 2 /\ InRange(b[2], \h80, \h8F) /\ cont(3) /\ cont(4) THEN 4
        ELSE 0

\* from_utf8(b).is_ok()
RECURSIVE from_utf8(_)
from_utf8(b) ==
    IF b = <<>> THEN TRUE
    ELSE LET w == WellFormedHead(b)
         IN  w > 0 /\ from_utf8(SubSeq(b, w + 1, Len(b)))

\* char::encode_utf8: the UTF-8 bytes of one scalar value
encode_utf8(c) ==
    IF c < \h80 THEN <<c>>
    ELSE IF c < \h800 THEN <<\hC0 + (c \div 64), \h80 + (c % 64)>>
    ELSE IF c < \h10000 THEN
        <<\hE0 + (c \div 4096), \h80 + ((c \div 64) % 64), \h80 + (c % 64)>>
    ELSE
        <<\hF0 + (c \div 262144), \h80 + ((c \div 4096) % 64),
          \h80 + ((c \div 64) % 64), \h80 + (c % 64)>>

\* the bytes of a string, from its characters
RECURSIVE as_bytes(_)
as_bytes(cs) ==
    IF cs = <<>> THEN <<>> ELSE encode_utf8(Head(cs)) \o as_bytes(Tail(cs))

\* str::is_char_boundary
is_char_boundary(s, i) ==
    i = 0 \/ i = Len(s) \/ (i < Len(s) /\ ~InRange(s[i + 1], \h80, \hBF))

\* s.chars().next().unwrap() as u32, for a non-empty well-formed s
\* (core::str::next_code_point)
next_code_point(s) ==
    LET x == s[1]
        init == BitAnd(x, \h1F)
        y == BitAnd(s[2], \h3F)
        y_z == BitOr(Shl(y, 6), BitAnd(s[3], \h3F))
        w == BitAnd(s[4], \h3F)
    IN  IF x < \h80 THEN x
        ELSE IF x < \hE0 THEN BitOr(Shl(init, 6), y)
        ELSE IF x < \hF0 THEN BitOr(Shl(init, 12), y_z)
        ELSE BitOr(Shl(BitAnd(init, 7), 18), BitOr(Shl(y_z, 6), w))

(***************************************************************************)
(* decode's helpers (lib.rs 216-239).                                      *)
(***************************************************************************)
decode_surrogate(second, third) ==
    BitOr(BitOr(\hD000, Shl(BitAnd(second, \h3F), 6)), BitAnd(third, \h3F))

\* the start tag of a 3-byte sequence in place of that of a 4-byte one
decode_code_point_tag3(code_point) ==
    << BitOr(\hE0, AsU8(Shr(BitAnd(code_point, \h1C0000), 18))),
       BitOr(CONT_TAG, AsU8(Shr(BitAnd(code_point, \h03F000), 12))),
       BitOr(CONT_TAG, AsU8(Shr(BitAnd(code_point, \h000FC0), 6))),
       BitOr(CONT_TAG, AsU8(BitAnd(code_point, \h00003F))) >>

decode_code_point(code_point) ==
    << BitOr(\hF0, AsU8(Shr(BitAnd(code_point, \h1C0000), 18))),
       BitOr(CONT_TAG, AsU8(Shr(BitAnd(code_point, \h03F000), 12))),
       BitOr(CONT_TAG, AsU8(Shr(BitAnd(code_point, \h000FC0), 6))),
       BitOr(CONT_TAG, AsU8(BitAnd(code_point, \h00003F))) >>

\* the supplementary planes' offset 0x10000 left out
pair_code_point_noplane(surrogate1, surrogate2) ==
    BitOr(Shl(WrappingSub(surrogate1, \hD800), 10),
          WrappingSub(surrogate2, \hDC00))

\* the code point a surrogate pair stands for (lib.rs 220)
pair_code_point(surrogate1, surrogate2) ==
    WrappingAdd(\h10000,
                BitOr(Shl(WrappingSub(surrogate1, \hD800), 10),
                      WrappingSub(surrogate2, \hDC00)))

decode_surrogate_pair(second, third, fifth, sixth) ==
    decode_code_point(pair_code_point(decode_surrogate(second, third),
                                      decode_surrogate(fifth, sixth)))

(***************************************************************************)
(* encode's helpers (lib.rs 302-325).                                      *)
(***************************************************************************)
\* the middle six bits taken from the wrong place
encode_surrogate_shift(surrogate) ==
    << BitOr(\hE0, AsU8(Shr(BitAnd(surrogate, \hF000), 12))),
       BitOr(CONT_TAG, AsU8(Shr(BitAnd(surrogate, \h0FC0), 5))),
       BitOr(CONT_TAG, AsU8(BitAnd(surrogate, \h003F))) >>

encode_surrogate(surrogate) ==
    << BitOr(\hE0, AsU8(Shr(BitAnd(surrogate, \hF000), 12))),
       BitOr(CONT_TAG, AsU8(Shr(BitAnd(surrogate, \h0FC0), 6))),
       BitOr(CONT_TAG, AsU8(BitAnd(surrogate, \h003F))) >>

encode_surrogate_pair(surrogate_pair) ==
    encode_surrogate(surrogate_pair[1]) \o encode_surrogate(surrogate_pair[2])

\* nine bits kept for the low surrogate in place of ten
to_surrogate_pair_mask(code_point) ==
    << BitOr(AsU16(Shr(WrappingSub(code_point, \h10000), 10)), \hD800),
       BitOr(AsU16(BitAnd(WrappingSub(code_point, \h10000), \h1FF)), \hDC00) >>

\* `code_point - 0x10000` wraps here; encode_iter says when a build with
\* overflow checks panics on it instead
to_surrogate_pair(code_point) ==
    << BitOr(AsU16(Shr(WrappingSub(code_point, \h10000), 10)), \hD800),
       BitOr(AsU16(BitAnd(WrappingSub(code_point, \h10000), \h3FF)), \hDC00) >>

(***************************************************************************)
(* is_valid (lib.rs 369-383).                                              *)
(***************************************************************************)
\* a 4-byte lead is let through
RECURSIVE is_valid_lax(_)
is_valid_lax(s) ==
    IF s = <<>> THEN TRUE
    ELSE IF is_continuation_byte(Head(s)) THEN is_valid_lax(Tail(s))
    ELSE IF utf8_char_width(Head(s)) # None THEN is_valid_lax(Tail(s))
    ELSE FALSE

RECURSIVE is_valid(_)
is_valid(s) ==
    IF s = <<>> THEN TRUE
    ELSE IF is_continuation_byte(Head(s)) THEN is_valid(Tail(s))
    ELSE IF utf8_char_width(Head(s)) # None THEN
        IF utf8_char_width(Head(s)) > CESU8_MAX_CHAR_WIDTH THEN FALSE
        ELSE is_valid(Tail(s))
    ELSE FALSE

(***************************************************************************)
(* encoded_len (lib.rs 329-349).                                           *)
(***************************************************************************)
\* a supplementary character counted as the 4 bytes it takes in UTF-8
encoded_len_iter_utf8(s, i, cap) ==
    LET byte == s[i + 1]
        width == utf8_char_width(byte)
    IN  IF byte <= MAX_ASCII_CODE_POINT THEN
            [index |-> i + 1, capacity |-> cap + 1, panic |-> FALSE]
        ELSE IF width = None THEN
            [index |-> i, capacity |-> cap, panic |-> TRUE]
        ELSE
            [index |-> i + width, capacity |-> cap + width, panic |-> FALSE]

\* one iteration of the loop, from index i and capacity cap
encoded_len_iter(s, i, cap) ==
    LET byte == s[i + 1]
        width == utf8_char_width(byte)
    IN  IF byte <= MAX_ASCII_CODE_POINT THEN
            [index |-> i + 1, capacity |-> cap + 1, panic |-> FALSE]
        ELSE IF width = None THEN
            \* utf8_char_width(byte).unwrap() on None
            [index |-> i, capacity |-> cap, panic |-> TRUE]
        ELSE
            [index |-> i + width,
             capacity |-> cap + (IF width <= CESU8_MAX_CHAR_WIDTH THEN width ELSE 6),
             panic |-> FALSE]

\* the value of a call that panicked
Panicked == -1

RECURSIVE encoded_len_loop(_, _, _)
encoded_len_loop(s, i, cap) ==
    IF i < Len(s) THEN
        LET st == encoded_len_iter(s, i, cap)
        IN  IF st.panic THEN Panicked
            ELSE encoded_len_loop(s, st.index, st.capacity)
    ELSE cap

encoded_len(s) == encoded_len_loop(s, 0, 0)

(***************************************************************************)
(* encode (lib.rs 268-300).                                                *)
(***************************************************************************)
Cow(tag, data) == [tag |-> tag, bytes |-> data]
\* no value returned yet
NotReturned == Cow("None", <<>>)

\* One iteration of the loop, from index i with the bytes enc pushed so far.
\* overflow: `code_point - 0x10000` overflowed, which panics in a build with
\* overflow checks and wraps in one without.
encode_iter(s, i, enc) ==
    LET byte == s[i + 1]
        width == utf8_char_width(byte)
        slice == SubSeq(s, i + 1, i + width)
        panic == [index |-> i, encoded |-> enc, panic |-> TRUE, overflow |-> FALSE]
    IN  IF byte <= MAX_ASCII_CODE_POINT THEN
            [index |-> i + 1, encoded |-> Append(enc, byte), panic |-> FALSE,
             overflow |-> FALSE]
        ELSE IF width = None THEN
            \* utf8_char_width(byte).unwrap() on None
            panic
        ELSE IF i + width > Len(s) THEN
            \* bytes[slice_range] and str[slice_range] out of bounds
            panic
        ELSE IF width <= CESU8_MAX_CHAR_WIDTH THEN
            [index |-> i + width, encoded |-> enc \o slice, panic |-> FALSE,
             overflow |-> FALSE]
        ELSE IF ~(is_char_boundary(s, i) /\ is_char_boundary(s, i + width)) THEN
            \* str[slice_range] off a character boundary
            panic
        ELSE
            CHOOSE st \in
                {[index |-> i + width,
                  encoded |-> enc \o encode_surrogate_pair(to_surrogate_pair(code_point)),
                  panic |-> FALSE,
                  overflow |-> code_point < \h10000] :
                 code_point \in {next_code_point(slice)}} : TRUE

(***************************************************************************)
(* decode (lib.rs 136-214).                                                *)
(***************************************************************************)
\* the fast path taken out
decode_fast_never(b) == NotReturned

\* lib.rs 137-139: the value returned at once, if any
decode_fast(b) == IF from_utf8(b) THEN Cow("Borrowed", b) ELSE NotReturned

\* the arm for a high surrogate widened to every surrogate
three_byte_arm_wide(first, second) ==
    IF \/ first = \hE0 /\ InRange(second, \hA0, \hBF)
       \/ InRange(first, \hE1, \hEC) /\ InRange(second, \h80, \hBF)
       \/ first = \hED /\ InRange(second, \h80, \h9F)
       \/ InRange(first, \hEE, \hEF) /\ InRange(second, \h80, \hBF)
    THEN "copy"
    ELSE IF first = \hED /\ InRange(second, \hA0, \hBF) THEN "pair"
    ELSE "err"

\* surrogates copied through like any 3-byte sequence
three_byte_arm_copy(first, second) ==
    IF \/ first = \hE0 /\ InRange(second, \hA0, \hBF)
       \/ InRange(first, \hE1, \hEF) /\ InRange(second, \h80, \hBF)
    THEN "copy"
    ELSE "err"

\* lib.rs 183-204: the arm of `match (first, second)` taken
three_byte_arm(first, second) ==
    IF \/ first = \hE0 /\ InRange(second, \hA0, \hBF)
       \/ InRange(first, \hE1, \hEC) /\ InRange(second, \h80, \hBF)
       \/ first = \hED /\ InRange(second, \h80, \h9F)
       \/ InRange(first, \hEE, \hEF) /\ InRange(second, \h80, \hBF)
    THEN "copy"
    ELSE IF first = \hED /\ InRange(second, \hA0, \hAF) THEN "pair"
    ELSE "err"

\* One iteration of `while let Some(&first) = iter.next()`, `it` bytes of b
\* yielded so far and dec pushed so far.
decode_iter(b, it, dec) ==
    LET first == b[it + 1]
        width == utf8_char_width(first)
        \* the k-th byte this iteration takes from iter
        has(k) == it + k <= Len(b)
        byte(k) == b[it + k]
        \* next_continuation!() yields the k-th byte
        cont(k) == has(k) /\ is_continuation_byte(byte(k))
        err == [err |-> TRUE, iter |-> it, decoded |-> dec]
        ok(k, out) == [err |-> FALSE, iter |-> it + k, decoded |-> dec \o out]
        arm == three_byte_arm(first, byte(2))
    IN  IF first <= MAX_ASCII_CODE_POINT THEN ok(1, <<first>>)
        ELSE IF width = None THEN err
        ELSE IF ~cont(2) THEN err
        ELSE IF width = 2 THEN ok(2, <<first, byte(2)>>)
        ELSE IF width = 3 THEN
            IF ~cont(3) THEN err
            ELSE IF arm = "copy" THEN ok(3, <<first, byte(2), byte(3)>>)
            ELSE IF arm = "pair" THEN
                IF ~has(4) \/ byte(4) # \hED THEN err
                ELSE IF ~cont(5) THEN err
                ELSE IF ~InRange(byte(5), \hB0, \hBF) THEN err
                ELSE IF ~cont(6) THEN err
                ELSE ok(6, decode_surrogate_pair(byte(2), byte(3), byte(5), byte(6)))
            ELSE err
        ELSE err

(***************************************************************************)
(* The inputs.                                                             *)
(***************************************************************************)
\* The characters strings are made of: the ends of the 1-, 2-, 3- and 4-byte
\* ranges, and the supplementary characters of the crate's examples.
Scalars == {\h41, \h7FF, \h800, \hFFFF, \h10000, \h10401, \h10437, \h10FFFF}

Strings == UNION {[1..n -> Scalars] : n \in 0..MaxChars}

\* What byte slices are made of: single bytes of every class, whole 2-, 3- and
\* 4-byte UTF-8 sequences, an overlong 3-byte sequence, and high and low
\* surrogates in their 3-byte form.
RawFragments ==
    { <<\h41>>, <<\h80>>, <<\hC1>>, <<\hC2>>, <<\hED>>, <<\hF5>>,
      <<\hC2, \h80>>, <<\hDF, \hBF>>,
      <<\hE0, \hA0, \h80>>, <<\hE0, \h9F, \hBF>>, <<\hED, \h9F, \hBF>>,
      <<\hEF, \hBF, \hBF>>,
      <<\hED, \hA0, \h81>>, <<\hED, \hAF, \hBF>>,
      <<\hED, \hB0, \h80>>, <<\hED, \hB0, \h81>>, <<\hED, \hB0, \hB7>>,
      <<\hED, \hBF, \hBF>>,
      <<\hF0, \h90, \h80, \h80>>, <<\hF4, \h8F, \hBF, \hBF>> }

RECURSIVE Concatenations(_)
Concatenations(n) ==
    IF n = 0 THEN {<<>>}
    ELSE LET shorter == Concatenations(n - 1)
         IN  shorter \cup {f \o r : f \in RawFragments, r \in shorter}

RawInputs == Concatenations(MaxFrags)

(***************************************************************************)
(* The state machine.                                                      *)
(***************************************************************************)
\* A caller holds the string of characters cs and calls encoded_len on it.
Init ==
    /\ chars \in Strings
    /\ str = as_bytes(chars)
    /\ pc = "encoded_len"
    /\ index = 0
    /\ capacity = 0
    /\ len_result = <<>>
    /\ encoded = <<>>
    /\ enc_result = NotReturned
    /\ bytes = <<>>
    /\ iter = 0
    /\ decoded = <<>>
    /\ dec_result = NotReturned

\* A caller holds a byte slice and calls decode on it.
InitDecode ==
    /\ chars = <<>>
    /\ str = <<>>
    /\ pc = "decode_entry"
    /\ index = 0
    /\ capacity = 0
    /\ len_result = <<>>
    /\ encoded = <<>>
    /\ enc_result = NotReturned
    /\ bytes \in RawInputs
    /\ iter = 0
    /\ decoded = <<>>
    /\ dec_result = NotReturned

\* lib.rs 333-347: one iteration of encoded_len's loop
EncodedLenIter ==
    /\ pc = "encoded_len"
    /\ index < Len(str)
    /\ \E st \in {encoded_len_iter(str, index, capacity)} :
           /\ index' = st.index
           /\ capacity' = st.capacity
           /\ pc' = IF st.panic THEN "panic" ELSE "encoded_len"
    /\ UNCHANGED <<chars, str, len_result, encoded, enc_result, bytes, iter,
                   decoded, dec_result>>

\* lib.rs 348: encoded_len returns; the caller goes on to call encode
EncodedLenReturn ==
    /\ pc = "encoded_len"
    /\ index >= Len(str)
    /\ len_result' = <<capacity>>
    /\ pc' = "encode_entry"
    /\ UNCHANGED <<chars, str, index, capacity, encoded, enc_result, bytes, iter,
                   decoded, dec_result>>

\* lib.rs 269-276: encode up to its loop. A Cow::Borrowed is returned at once
\* and the caller goes on to decode it.
EncodeEntry ==
    /\ pc = "encode_entry"
    /\ IF is_valid(str) THEN
           /\ enc_result' = Cow("Borrowed", str)
           /\ bytes' = str
           /\ pc' = "decode_entry"
           /\ UNCHANGED <<index, capacity, encoded>>
       ELSE
           /\ capacity' = encoded_len(str)
           /\ encoded' = <<>>
           /\ index' = 0
           /\ pc' = IF capacity' = Panicked THEN "panic" ELSE "encode"
           /\ UNCHANGED <<enc_result, bytes>>
    /\ UNCHANGED <<chars, str, len_result, iter, decoded, dec_result>>

\* lib.rs 278-297: one iteration of encode's loop
EncodeIter ==
    /\ pc = "encode"
    /\ index < Len(str)
    /\ \E st \in {encode_iter(str, index, encoded)} :
         \E overflow_checks \in BOOLEAN :
             /\ index' = st.index
             /\ encoded' = st.encoded
             /\ pc' = IF st.panic \/ (st.overflow /\ overflow_checks)
                      THEN "panic" ELSE "encode"
    /\ UNCHANGED <<chars, str, capacity, len_result, enc_result, bytes, iter,
                   decoded, dec_result>>

\* lib.rs 299: encode returns Cow::Owned; the caller goes on to decode it
EncodeReturn ==
    /\ pc = "encode"
    /\ index >= Len(str)
    /\ enc_result' = Cow("Owned", encoded)
    /\ bytes' = encoded
    /\ pc' = "decode_entry"
    /\ UNCHANGED <<chars, str, index, capacity, len_result, encoded, iter,
                   decoded, dec_result>>

\* lib.rs 137-142: decode up to its loop
DecodeEntry ==
    /\ pc = "decode_entry"
    /\ \E fast \in {decode_fast(bytes)} :
           /\ dec_result' = fast
           /\ pc' = IF fast # NotReturned THEN "done" ELSE "decode"
    /\ iter' = 0
    /\ decoded' = <<>>
    /\ UNCHANGED <<chars, str, index, capacity, len_result, encoded, enc_result,
                   bytes>>

\* lib.rs 170-210: one iteration of decode's loop
DecodeIter ==
    /\ pc = "decode"
    /\ iter < Len(bytes)
    /\ \E st \in {decode_iter(bytes, iter, decoded)} :
           /\ iter' = st.iter
           /\ decoded' = st.decoded
           /\ pc' = IF st.err THEN "err" ELSE "decode"
           /\ dec_result' = IF st.err THEN Cow("Err", <<>>) ELSE dec_result
    /\ UNCHANGED <<chars, str, index, capacity, len_result, encoded, enc_result,
                   bytes>>

\* lib.rs 212-213: the loop is over. debug_assertions: whether the build keeps
\* debug_assert!; without it the String is built unchecked.
DecodeReturn ==
    /\ pc = "decode"
    /\ iter >= Len(bytes)
    /\ \E valid \in {from_utf8(decoded)} :
         \E debug_assertions \in BOOLEAN :
             IF debug_assertions /\ ~valid THEN
                 /\ pc' = "panic"
                 /\ dec_result' = dec_result
             ELSE
                 /\ pc' = "done"
                 /\ dec_result' = Cow("Owned", decoded)
    /\ UNCHANGED <<chars, str, index, capacity, len_result, encoded, enc_result,
                   bytes, iter, decoded>>

Next ==
    \/ EncodedLenIter
    \/ EncodedLenReturn
    \/ EncodeEntry
    \/ EncodeIter
    \/ EncodeReturn
    \/ DecodeEntry
    \/ DecodeIter
    \/ DecodeReturn

NextDecode ==
    \/ DecodeEntry
    \/ DecodeIter
    \/ DecodeReturn

Spec == Init /\ [][Next]_vars

SpecDecode == InitDecode /\ [][NextDecode]_vars

(***************************************************************************)
(* What the properties are stated with: UTF-8 and CESU-8 as their          *)
(* definitions give them, in plain arithmetic.                             *)
(***************************************************************************)
Terminated == pc \in {"done", "err", "panic"}

IsContinuation(x) == InRange(x, \h80, \hBF)

\* the 16-bit value u in the 3-byte layout 1110xxxx 10xxxxxx 10xxxxxx
ThreeByteLayout(u) ==
    <<\hE0 + (u \div 4096), \h80 + ((u \div 64) % 64), \h80 + (u % 64)>>

\* the 16 bits that a sequence in the 3-byte layout holds
ThreeByteValue(b1, b2, b3) == (b1 % 16) * 4096 + (b2 % 64) * 64 + (b3 % 64)

HighSurrogateOf(c) == \hD800 + ((c - \h10000) \div 1024)
LowSurrogateOf(c) == \hDC00 + ((c - \h10000) % 1024)

\* the CESU-8 bytes of one scalar value
Cesu8OfChar(c) ==
    IF c <= \hFFFF THEN encode_utf8(c)
    ELSE ThreeByteLayout(HighSurrogateOf(c)) \o ThreeByteLayout(LowSurrogateOf(c))

RECURSIVE Cesu8OfString(_)
Cesu8OfString(cs) ==
    IF cs = <<>> THEN <<>> ELSE Cesu8OfChar(Head(cs)) \o Cesu8OfString(Tail(cs))

\* (lead, second byte) of a 3-byte UTF-8 sequence that is no surrogate
StrictThreeByte(first, second) ==
    \/ first = \hE0 /\ InRange(second, \hA0, \hBF)
    \/ InRange(first, \hE1, \hEC) /\ InRange(second, \h80, \hBF)
    \/ first = \hED /\ InRange(second, \h80, \h9F)
    \/ InRange(first, \hEE, \hEF) /\ InRange(second, \h80, \hBF)

\* How many bytes the CESU-8 unit at the head of b takes, 0 if there is none:
\* one byte 00-7F, a 2-byte sequence, a 3-byte sequence that is no surrogate,
\* or a pair ED A0-AF xx ED B0-BF xx.
Cesu8Head(b) ==
    LET n == Len(b)
    IN  IF n = 0 THEN 0
        ELSE IF b[1] <= \h7F THEN 1
        ELSE IF n >= 2 /\ InRange(b[1], \hC2, \hDF) /\ IsContinuation(b[2]) THEN 2
        ELSE IF n >= 3 /\ StrictThreeByte(b[1], b[2]) /\ IsContinuation(b[3]) THEN 3
        ELSE IF /\ n >= 6
                /\ b[1] = \hED /\ InRange(b[2], \hA0, \hAF) /\ IsContinuation(b[3])
                /\ b[4] = \hED /\ InRange(b[5], \hB0, \hBF) /\ IsContinuation(b[6])
             THEN 6
        ELSE 0

RECURSIVE IsCesu8(_)
IsCesu8(b) ==
    IF b = <<>> THEN TRUE
    ELSE LET w == Cesu8Head(b)
         IN  w > 0 /\ IsCesu8(SubSeq(b, w + 1, Len(b)))

\* the code point of the pair b[1..6]
PairCodePoint(b) ==
    \h10000 + (ThreeByteValue(b[1], b[2], b[3]) - \hD800) * 1024
            + (ThreeByteValue(b[4], b[5], b[6]) - \hDC00)

\* the UTF-8 that valid CESU-8 stands for: pairs replaced, the rest kept
RECURSIVE Cesu8ToUtf8(_)
Cesu8ToUtf8(b) ==
    IF b = <<>> \/ Cesu8Head(b) = 0 THEN <<>>
    ELSE LET w == Cesu8Head(b)
             rest == SubSeq(b, w + 1, Len(b))
         IN  IF w = 6 THEN encode_utf8(PairCodePoint(b)) \o Cesu8ToUtf8(rest)
             ELSE SubSeq(b, 1, w) \o Cesu8ToUtf8(rest)

\* b holds the six bytes p from its (k+1)-th on
HasAt(b, k, p) == Len(b) >= k + Len(p) /\ SubSeq(b, k + 1, k + Len(p)) = p

Contains(b, p) == \E k \in 0..Len(b) : HasAt(b, k, p)

(***************************************************************************)
(* C1. Round trip: for every well-formed string s, decode(encode(s))       *)
(* succeeds and its text has the bytes of s; no call fails on the way.     *)
(***************************************************************************)
C1_RoundTrip ==
    /\ pc \notin {"err", "panic"}
    /\ pc = "done" =>
          /\ dec_result.tag \in {"Borrowed", "Owned"}
          /\ dec_result.bytes = str

\* a string of a 1-, a 2-, a 3- and a 4-byte character went round, rewritten
\* both ways
C1_Witness ==
    /\ pc = "done"
    /\ enc_result.tag = "Owned"
    /\ dec_result = Cow("Owned", str)
    /\ \E i \in DOMAIN chars : chars[i] < \h80
    /\ \E i \in DOMAIN chars : InRange(chars[i], \h80, \h7FF)
    /\ \E i \in DOMAIN chars : InRange(chars[i], \h800, \hFFFF)
    /\ \E i \in DOMAIN chars : chars[i] >= \h10000

(***************************************************************************)
(* C2. Length: encoded_len(s) is the number of bytes of encode(s), on the  *)
(* borrowed and on the rewritten path, and encode's buffer of capacity     *)
(* encoded_len(s) is never exceeded and is full at the end.                *)
(***************************************************************************)
C2_LengthCorrect ==
    /\ pc = "encode" => Len(encoded) <= capacity
    /\ enc_result.tag # "None" => len_result = <<Len(enc_result.bytes)>>
    /\ enc_result.tag = "Owned" => Len(enc_result.bytes) = capacity

\* a rewritten string with characters of both kinds, longer than its UTF-8
C2_Witness ==
    /\ enc_result.tag = "Owned"
    /\ len_result = <<Len(enc_result.bytes)>>
    /\ Len(enc_result.bytes) > Len(str)
    /\ \E i \in DOMAIN chars : InRange(chars[i], \h80, \hFFFF)

C7_EncodeExact ==
    enc_result.tag # "None" =>
        /\ enc_result.bytes = Cesu8OfString(chars)
        /\ chars = <<\h10437>> =>
              enc_result.bytes = <<\hED, \hA0, \h81, \hED, \hB0, \hB7>>
        /\ chars = <<\h10401>> =>
              enc_result.bytes = <<\hED, \hA0, \h81, \hED, \hB0, \h81>>
        /\ chars = <<\hFFFF>> => enc_result.bytes = <<\hEF, \hBF, \hBF>>
        /\ chars = <<\h10000>> =>
              enc_result.bytes = <<\hED, \hA0, \h80, \hED, \hB0, \h80>>

\* U+10437 between two BMP characters was encoded
C7_Witness ==
    /\ chars = <<\hFFFF, \h10437, \h41>>
    /\ enc_result =
         Cow("Owned", <<\hEF, \hBF, \hBF, \hED, \hA0, \h81, \hED, \hB0, \hB7, \h41>>)

(***************************************************************************)
(* C10. On a well-formed string nothing in encoded_len and encode fails:   *)
(* each byte taken as a lead has a width, index + width stays within the   *)
(* input, every slice starts and ends on a character boundary, the scalar  *)
(* of a 4-byte sequence is at least 0x10000, and each loop ends with index *)
(* at the length of the input.                                             *)
(***************************************************************************)
C10_NeverFail ==
    /\ pc # "panic"
    /\ pc \in {"encoded_len", "encode"} =>
          /\ index <= Len(str)
          /\ is_char_boundary(str, index)
          /\ index < Len(str) =>
                /\ utf8_char_width(str[index + 1]) # None
                /\ index + utf8_char_width(str[index + 1]) <= Len(str)
                /\ is_char_boundary(str, index + utf8_char_width(str[index + 1]))
                /\ utf8_char_width(str[index + 1]) = 4 =>
                      next_code_point(SubSeq(str, index + 1, index + 4)) >= \h10000
    /\ pc = "encode_entry" => index = Len(str)
    /\ enc_result.tag = "Owned" => index = Len(str)

\* encode's loop is over on a string of 3- and 4-byte characters
C10_Witness ==
    /\ pc = "encode"
    /\ index = Len(str)
    /\ \E i \in DOMAIN chars : InRange(chars[i], \h800, \hFFFF)
    /\ \E i \in DOMAIN chars : chars[i] >= \h10000

(***************************************************************************)
(* C4. What decode returns is well-formed UTF-8, and on the slow path the  *)
(* bytes pushed so far are well-formed UTF-8 whenever an iteration of the  *)
(* loop is over, so the assertion before the unchecked String never fails. *)
(***************************************************************************)
C4_DecodedValid ==
    /\ pc # "panic"
    /\ pc = "decode" => from_utf8(decoded)
    /\ dec_result.tag \in {"Borrowed", "Owned"} => from_utf8(dec_result.bytes)

\* the slow path returned a text made from a pair and more
C4_Witness ==
    /\ dec_result.tag = "Owned"
    /\ Contains(bytes, <<\hED, \hAF, \hBF, \hED, \hBF, \hBF>>)
    /\ Len(bytes) > 6
    /\ from_utf8(dec_result.bytes)

(***************************************************************************)
(* C5. decode fails exactly when its input is neither valid UTF-8 nor      *)
(* valid CESU-8, and then returns the error alone. An unpaired high        *)
(* surrogate, an unpaired low surrogate, a truncated sequence, an illegal  *)
(* lead byte and a 4-byte sequence beside a surrogate pair all fail.       *)
(***************************************************************************)
C5_FailClosed ==
    Terminated =>
        /\ pc = "err" <=> (~from_utf8(bytes) /\ ~IsCesu8(bytes))
        /\ pc = "err" => dec_result = Cow("Err", <<>>)
        /\ bytes \in { <<\hED, \hA0, \h81>>,
                       <<\hED, \hA0, \h81, \h41>>,
                       <<\hED, \hA0, \h81, \hED, \hA0, \h81>>,
                       <<\hED, \hB0, \hB7>>,
                       <<\hEF, \hBF, \hBF, \hC2>>,
                       <<\h41, \hF5>>,
                       <<\hED, \hA0, \h81, \hED, \hB0, \hB7, \hF0, \h90, \h80, \h80>> }
              => pc = "err"

\* a 4-byte sequence after a surrogate pair was refused
C5_Witness ==
    /\ pc = "err"
    /\ dec_result = Cow("Err", <<>>)
    /\ bytes = <<\hED, \hA0, \h81, \hED, \hB0, \hB7, \hF0, \h90, \h80, \h80>>

(***************************************************************************)
(* C6. The fast path: on input that is valid UTF-8, 4-byte sequences       *)
(* included, decode returns the input itself, borrowed, and never enters   *)
(* the loop.                                                               *)
(***************************************************************************)
C6_FastPath ==
    /\ pc = "decode" => ~from_utf8(bytes)
    /\ (Terminated /\ from_utf8(bytes)) =>
          /\ pc = "done"
          /\ dec_result = Cow("Borrowed", bytes)
          /\ iter = 0
          /\ decoded = <<>>

\* valid UTF-8 with a 4-byte sequence came back borrowed
C6_Witness ==
    /\ pc = "done"
    /\ dec_result = Cow("Borrowed", bytes)
    /\ Contains(bytes, <<\hF0, \h90, \h80, \h80>>)
    /\ Contains(bytes, <<\hE0, \hA0, \h80>>)

(***************************************************************************)
(* C8. On the slow path the bytes pushed are those taken so far with every *)
(* pair ED s2 s3 ED s5 s6 replaced by the 4-byte UTF-8 of                  *)
(* 0x10000 + ((high - 0xD800) << 10 | (low - 0xDC00)), a code point in     *)
(* U+10000..U+10FFFF, and every other sequence kept, in order.             *)
(***************************************************************************)
C8_PairsExact ==
    /\ pc = "decode" =>
          /\ decoded = Cesu8ToUtf8(SubSeq(bytes, 1, iter))
          /\ IsCesu8(SubSeq(bytes, 1, iter))
          /\ \A k \in 0..iter :
                (k + 6 <= iter /\ Cesu8Head(SubSeq(bytes, k + 1, k + 6)) = 6) =>
                    InRange(PairCodePoint(SubSeq(bytes, k + 1, k + 6)), \h10000, \h10FFFF)
    /\ dec_result.tag = "Owned" =>
          /\ dec_result.bytes = Cesu8ToUtf8(bytes)
          /\ bytes = <<\hED, \hA0, \h81, \hED, \hB0, \hB7>> =>
                dec_result.bytes = encode_utf8(\h10437)
          /\ bytes = <<\hED, \hA0, \h81, \hED, \hB0, \h80>> =>
                dec_result.bytes = encode_utf8(\h10400)
          /\ bytes = <<\hED, \hA0, \h81, \hED, \hB0, \h81>> =>
                dec_result.bytes = encode_utf8(\h10401)

\* a 3-byte sequence, then the pair of U+10437 were decoded
C8_Witness ==
    /\ bytes = <<\hEF, \hBF, \hBF, \hED, \hA0, \h81, \hED, \hB0, \hB7>>
    /\ dec_result = Cow("Owned", <<\hEF, \hBF, \hBF, \hF0, \h90, \h90, \hB7>>)

(***************************************************************************)
(* C9. The 3-byte sequences the slow path takes.                           *)
(***************************************************************************)
\* the next iteration of the loop starts on a 3-byte sequence: a lead E0-EF
\* and two continuation bytes
AtThreeByte ==
    /\ pc = "decode"
    /\ iter + 3 <= Len(bytes)
    /\ InRange(bytes[iter + 1], \hE0, \hEF)
    /\ IsContinuation(bytes[iter + 2])
    /\ IsContinuation(bytes[iter + 3])

\* a low surrogate, ED B0-BF xx, follows the 3-byte sequence
LowSurrogateFollows ==
    /\ iter + 6 <= Len(bytes)
    /\ bytes[iter + 4] = \hED
    /\ InRange(bytes[iter + 5], \hB0, \hBF)
    /\ IsContinuation(bytes[iter + 6])

\* the iteration copied the 3-byte sequence through
CopiedThree ==
    /\ pc' = "decode"
    /\ iter' = iter + 3
    /\ decoded' = decoded \o SubSeq(bytes, iter + 1, iter + 3)

\* the iteration took a pair of six bytes and pushed four
TookPair ==
    /\ pc' = "decode"
    /\ iter' = iter + 6
    /\ Len(decoded') = Len(decoded) + 4

\* C9 as claimed: a 3-byte sequence in the strict UTF-8 ranges is accepted, and
\* one with lead ED and second byte anywhere in A0-BF is accepted as the first
\* half of a surrogate pair.
C9_AnySurrogateFirst ==
    [][ AtThreeByte =>
          /\ StrictThreeByte(bytes[iter + 1], bytes[iter + 2]) => CopiedThree
          /\ (/\ bytes[iter + 1] = \hED
              /\ InRange(bytes[iter + 2], \hA0, \hBF)
              /\ LowSurrogateFollows) => TookPair ]_vars

\* C9 amended: a 3-byte sequence in the strict UTF-8 ranges is accepted; one
\* with lead ED and second byte in A0-AF, a high surrogate, is accepted as the
\* first half of a surrogate pair, when a low surrogate follows it and not
\* otherwise; every other 3-byte sequence, lead ED with second byte B0-BF
\* included, is refused.
C9_HighSurrogateFirst ==
    [][ AtThreeByte =>
          IF StrictThreeByte(bytes[iter + 1], bytes[iter + 2]) THEN CopiedThree
          ELSE IF bytes[iter + 1] = \hED /\ InRange(bytes[iter + 2], \hA0, \hAF)
               THEN IF LowSurrogateFollows THEN TookPair ELSE pc' = "err"
          ELSE pc' = "err" ]_vars

\* a 3-byte sequence of the strict ranges was copied, and the low surrogate
\* after it, in the place of a first half and with a low surrogate behind it,
\* was refused
C9_Witness ==
    /\ pc = "err"
    /\ iter = 3
    /\ decoded = <<\hED, \h9F, \hBF>>
    /\ bytes = <<\hED, \h9F, \hBF, \hED, \hB0, \h80, \hED, \hB0, \h80>>

====
